---------------------------- MODULE Spec2Model ----------------------------
(***************************************************************************)
(* Model of src/src/earnings.rs: the trading-calendar arithmetic           *)
(* (DatelikeExt), the reconciliation function best_earnings_guess and the  *)
(* fan-out/fan-in orchestrator get_earnings_date_estimates.                *)
(*                                                                         *)
(* A Date is the number of days since 0000-12-31 (chrono's                 *)
(* num_days_from_ce), so that day 1 is 0001-01-01, a Monday.               *)
(***************************************************************************)
EXTENDS Integers, Sequences, FiniteSets, TLC

(***************************************************************************)
(* Bounds of the model.                                                    *)
(***************************************************************************)
\* Longest input slice handed to best_earnings_guess.
MaxLen == 2

\* Observations carry a date in FirstDay..MaxDate.
MaxDate == 8

\* The value chrono::Local::today() returns during the call, a few days
\* after FirstDay: of a date, the code reads only its order with today and
\* with other dates, its weekday, and whether it is FirstDay.
Today == 3

(***************************************************************************)
(* Program constants.                                                      *)
(***************************************************************************)
\* Date::from_num_days_from_ce(1), the initial highest_*_date.
FirstDay == 1

\* The registered adapters, in the order of the SOURCES table.
SOURCES == <<"Bloomberg", "FinViz", "Yahoo", "Zacks">>

AnnounceTime == {"BeforeMarket", "AfterMarket", "Unknown"}

(***************************************************************************)
(* Trading calendar.                                                       *)
(***************************************************************************)
\* chrono's Weekday of a date: 0 = Mon, ..., 4 = Fri, 5 = Sat, 6 = Sun.
weekday(d) == (d - 1) % 7

Mon == 0
Fri == 4
Sat == 5
Sun == 6

closest_trading_day(d) ==
    CASE weekday(d) = Sat -> d - 1
      [] weekday(d) = Sun -> d - 2
      [] OTHER -> d

\* next_trading_day without its Saturday arm.
next_trading_day_sat_plus_one(d) ==
    CASE weekday(d) = Fri -> d + 3
      [] OTHER -> d + 1

next_trading_day(d) ==
    CASE weekday(d) = Fri -> d + 3
      [] weekday(d) = Sat -> d + 2
      [] OTHER -> d + 1

prev_trading_day(d) ==
    CASE weekday(d) = Mon -> d - 3
      [] weekday(d) = Sun -> d - 2
      [] OTHER -> d - 1

\* EarningsDateTime::last_session: the session date and the fuzzy flag.
last_session(dt) ==
    CASE dt.time = "BeforeMarket" -> <<prev_trading_day(dt.date), FALSE>>
      [] dt.time = "AfterMarket" -> <<dt.date, FALSE>>
      [] OTHER -> <<dt.date, TRUE>>

(***************************************************************************)
(* Inputs of best_earnings_guess.                                          *)
(***************************************************************************)
EarningsDateTime == [date : FirstDay..MaxDate, time : AnnounceTime]

Min(a, b) == IF a < b THEN a ELSE b

SourcesOf(l) == {l[k].source : k \in 1..Len(l)}

\* The place of a source name in the SOURCES table.
SourceIndex(name) == CHOOSE k \in 1..Len(SOURCES) : SOURCES[k] = name

SourcedEarningsTime(n) ==
    [datetime : EarningsDateTime,
     source : {SOURCES[k] : k \in 1..Min(n, Len(SOURCES))}]

\* Source names are only ever compared for equality, so a slice names its
\* sources in the order of the SOURCES table as they first appear: every
\* pattern of equal and distinct sources occurs, each once.
FirstAppearance(l) ==
    \A k \in 1..Len(l) :
      SourceIndex(l[k].source)
        <= Cardinality({l[j].source : j \in 1..(k - 1)}) + 1

\* The slices of exactly n observations.
Slices(n) == {l \in [1..n -> SourcedEarningsTime(n)] : FirstAppearance(l)}

(***************************************************************************)
(* State.                                                                  *)
(***************************************************************************)
VARIABLES
    pc,                   \* position in best_earnings_guess
    dates,                \* the input slice
    i,                    \* index of the next observation to group
    guesses,              \* HashMap<Date, Vec<(&SourcedEarningsTime, bool)>>
    visited,              \* keys the scoring loop has been through
    highest_fuzzy_count,
    highest_fuzzy_date,
    highest_exact_count,
    highest_exact_date,
    best_date,            \* EarningsGuess.last_session
    concurrences,
    close_disagreements,
    far_disagreements,
    cal,                  \* a date and the trading days computed from it
    gpc,                  \* position of get_earnings_date_estimates
    spawned,              \* number of tasks spawned so far
    joined,               \* number of join handles consumed so far
    task,                 \* position of each adapter's task
    result,               \* what each task's closure returned
    estimates,            \* the Vec being collected
    warned,               \* adapters with a "had no earnings date" warning
    error_log             \* adapters whose failure was logged, in order

guessVars == <<pc, dates, i, guesses, visited, highest_fuzzy_count,
               highest_fuzzy_date, highest_exact_count, highest_exact_date,
               best_date, concurrences, close_disagreements,
               far_disagreements>>

gatherVars == <<gpc, spawned, joined, task, result, estimates, warned,
                error_log>>

vars == <<guessVars, cal, gatherVars>>

(***************************************************************************)
(* best_earnings_guess, lines 151-238.                                     *)
(***************************************************************************)
Empty == [k \in {} |-> <<>>]

\* guesses.entry(k).or_insert_with(Vec::new).push(e)
Push(g, k, e) ==
    IF k \in DOMAIN g THEN [g EXCEPT ![k] = Append(@, e)]
    ELSE g @@ (k :> <<e>>)

\* guesses.remove(k): the map without the key.
Remove(g, k) == [d \in (DOMAIN g) \ {k} |-> g[d]]

\* guesses.remove(k).unwrap_or_else(Vec::new): the removed value.
Removed(g, k) == IF k \in DOMAIN g THEN g[k] ELSE <<>>

\* The grouping loop's iteration without lines 168-170, the entry at the
\* previous trading day.
GroupNoPrev(g, n, dt) ==
    LET last == last_session(dt)[1]
        fuzz == last_session(dt)[2]
        g1 == Push(g, last, [guess |-> n, fuzz |-> fuzz])
    IN IF fuzz
       THEN Push(g1, next_trading_day(last), [guess |-> n, fuzz |-> TRUE])
       ELSE g1

\* One iteration of the grouping loop, lines 157-171.
Group(g, n, dt) ==
    LET last == last_session(dt)[1]
        fuzz == last_session(dt)[2]
        g1 == Push(g, last, [guess |-> n, fuzz |-> fuzz])
        g2 == Push(g1, next_trading_day(last), [guess |-> n, fuzz |-> TRUE])
        g3 == Push(g2, prev_trading_day(last), [guess |-> n, fuzz |-> TRUE])
    IN IF fuzz THEN g3 ELSE g1

\* guess.iter().filter(|&&(_, from_fuzzy)| from_fuzzy).count()
CountFuzzy(v) == Cardinality({k \in 1..Len(v) : v[k].fuzz})

\* The test of lines 192 and 197: more votes, or as many on an earlier date.
Better(count, date, highest_count, highest_date) ==
    \/ count > highest_count
    \/ (count = highest_count /\ date < highest_date)

\* concurrences.iter().find(|g| g.source == source).is_none()
Absent(list, source) == \A k \in 1..Len(list) : list[k].source # source

\* The test of line 213 without its look into concurrences.
CloseKeepNoConcurrences(concs, acc, o) == Absent(acc, o.source)

\* The test of line 213.
CloseKeep(concs, acc, o) == Absent(concs, o.source) /\ Absent(acc, o.source)

\* The test of lines 223-225 without its look into close_disagreements.
FarKeepNoClose(concs, close, acc, o) ==
    Absent(concs, o.source) /\ Absent(acc, o.source)

\* The test of lines 223-225.
FarKeep(concs, close, acc, o) ==
    /\ Absent(concs, o.source)
    /\ Absent(close, o.source)
    /\ Absent(acc, o.source)

\* The fold of lines 210-217 over the entries v, from accumulator acc.
RECURSIVE CloseFold(_, _, _, _)
CloseFold(in, concs, acc, v) ==
    IF v = <<>> THEN acc
    ELSE LET o == in[Head(v).guess]
         IN CloseFold(in, concs,
                      IF CloseKeep(concs, acc, o) THEN Append(acc, o) ELSE acc,
                      Tail(v))

\* The fold of lines 220-230 over the entries v of one key.
RECURSIVE FarFold(_, _, _, _, _)
FarFold(in, concs, close, acc, v) ==
    IF v = <<>> THEN acc
    ELSE LET o == in[Head(v).guess]
         IN FarFold(in, concs, close,
                    IF FarKeep(concs, close, acc, o) THEN Append(acc, o)
                    ELSE acc,
                    Tail(v))

\* The neighbouring groups taken a calendar day, not a trading day, away.
CloseEntriesCalendarDays(g, best) ==
    Removed(g, best - 1) \o Removed(g, best + 1)

\* The two neighbouring groups removed by lines 207-208, prev first.
CloseEntries(g, best) ==
    Removed(g, prev_trading_day(best)) \o Removed(g, next_trading_day(best))

(***************************************************************************)
(* Values of the parts of the state a specification leaves alone.          *)
(***************************************************************************)
NoDateTime == [date |-> 0, time |-> "Unknown"]

Pending == [kind |-> "pending", cause |-> "", datetime |-> NoDateTime]

Adapters == 1..Len(SOURCES)

CalIdle == cal = [d |-> 0, done |-> {}, closest |-> 0, next |-> 0, prev |-> 0,
                  next_of_prev |-> 0, prev_of_next |-> 0]

GatherIdle ==
    /\ gpc = "idle"
    /\ spawned = 0
    /\ joined = 0
    /\ task = [s \in Adapters |-> "unspawned"]
    /\ result = [s \in Adapters |-> Pending]
    /\ estimates = <<>>
    /\ warned = {}
    /\ error_log = <<>>

GuessIdle ==
    /\ pc = "idle"
    /\ dates = <<>>
    /\ i = 1
    /\ guesses = Empty
    /\ visited = {}
    /\ highest_fuzzy_count = 0
    /\ highest_fuzzy_date = FirstDay
    /\ highest_exact_count = 0
    /\ highest_exact_date = FirstDay
    /\ best_date = FirstDay
    /\ concurrences = <<>>
    /\ close_disagreements = <<>>
    /\ far_disagreements = <<>>

GuessInit ==
    /\ CalIdle
    /\ GatherIdle
    /\ pc = "group"
    /\ \E n \in 0..MaxLen : dates \in Slices(n)
    /\ i = 1
    /\ guesses = Empty
    /\ visited = {}
    /\ highest_fuzzy_count = 0
    /\ highest_fuzzy_date = FirstDay
    /\ highest_exact_count = 0
    /\ highest_exact_date = FirstDay
    /\ best_date = FirstDay
    /\ concurrences = <<>>
    /\ close_disagreements = <<>>
    /\ far_disagreements = <<>>

\* Lines 156-172: one observation of the slice is grouped.
GroupStep ==
    /\ pc = "group"
    /\ i <= Len(dates)
    /\ guesses' = Group(guesses, i, dates[i].datetime)
    /\ i' = i + 1
    /\ UNCHANGED <<pc, dates, visited, highest_fuzzy_count, highest_fuzzy_date,
                   highest_exact_count, highest_exact_date, best_date,
                   concurrences, close_disagreements, far_disagreements,
                   cal, gatherVars>>

\* The grouping loop ends; lines 175-181.
GroupDone ==
    /\ pc = "group"
    /\ i > Len(dates)
    /\ pc' = "score"
    /\ UNCHANGED <<dates, i, guesses, visited, highest_fuzzy_count,
                   highest_fuzzy_date, highest_exact_count, highest_exact_date,
                   best_date, concurrences, close_disagreements,
                   far_disagreements, cal, gatherVars>>

\* Lines 182-187: the map's iterator yields a key before today.  A HashMap
\* iterates in an arbitrary order.
ScorePast ==
    /\ pc = "score"
    /\ \E date \in (DOMAIN guesses) \ visited :
         /\ date < Today
         /\ visited' = visited \cup {date}
    /\ UNCHANGED <<pc, dates, i, guesses, highest_fuzzy_count,
                   highest_fuzzy_date, highest_exact_count, highest_exact_date,
                   best_date, concurrences, close_disagreements,
                   far_disagreements, cal, gatherVars>>

\* Lines 182-201: the iterator yields a key on or after today.
ScoreCandidate ==
    /\ pc = "score"
    /\ \E date \in (DOMAIN guesses) \ visited :
         LET fuzzy_count == Len(guesses[date])
             exact_count == CountFuzzy(guesses[date])
             fuzzy == Better(fuzzy_count, date, highest_fuzzy_count,
                             highest_fuzzy_date)
             exact == Better(exact_count, date, highest_exact_count,
                             highest_exact_date)
         IN /\ date >= Today
            /\ visited' = visited \cup {date}
            /\ highest_fuzzy_count' =
                 IF fuzzy THEN fuzzy_count ELSE highest_fuzzy_count
            /\ highest_fuzzy_date' =
                 IF fuzzy THEN date ELSE highest_fuzzy_date
            /\ highest_exact_count' =
                 IF exact THEN fuzzy_count ELSE highest_exact_count
            /\ highest_exact_date' =
                 IF exact THEN date ELSE highest_exact_date
    /\ UNCHANGED <<pc, dates, i, guesses, best_date, concurrences,
                   close_disagreements, far_disagreements, cal, gatherVars>>

\* Lines 204-205: the selected date has no group and unwrap() panics.
SelectPanics ==
    /\ pc = "score"
    /\ visited = DOMAIN guesses
    /\ highest_fuzzy_date \notin DOMAIN guesses
    /\ best_date' = highest_fuzzy_date
    /\ pc' = "panicked"
    /\ UNCHANGED <<dates, i, guesses, visited, highest_fuzzy_count,
                   highest_fuzzy_date, highest_exact_count, highest_exact_date,
                   concurrences, close_disagreements, far_disagreements,
                   cal, gatherVars>>

\* Lines 204-217: the selected group becomes concurrences, its two
\* neighbours are folded into close_disagreements.
Select ==
    /\ pc = "score"
    /\ visited = DOMAIN guesses
    /\ highest_fuzzy_date \in DOMAIN guesses
    /\ LET best == highest_fuzzy_date
           concs == [k \in 1..Len(guesses[best]) |->
                       dates[guesses[best][k].guess]]
           rest == Remove(guesses, best)
       IN /\ best_date' = best
          /\ concurrences' = concs
          /\ close_disagreements' =
               CloseFold(dates, concs, <<>>, CloseEntries(rest, best))
          /\ guesses' = Remove(Remove(rest, prev_trading_day(best)),
                               next_trading_day(best))
    /\ pc' = "far"
    /\ UNCHANGED <<dates, i, visited, highest_fuzzy_count, highest_fuzzy_date,
                   highest_exact_count, highest_exact_date, far_disagreements,
                   cal, gatherVars>>

\* Lines 220-230: guesses.into_iter() yields one more group, in an
\* arbitrary order, and its entries are folded into far_disagreements.
FarStep ==
    /\ pc = "far"
    /\ \E date \in DOMAIN guesses :
         /\ far_disagreements' =
              FarFold(dates, concurrences, close_disagreements,
                      far_disagreements, guesses[date])
         /\ guesses' = Remove(guesses, date)
    /\ UNCHANGED <<pc, dates, i, visited, highest_fuzzy_count,
                   highest_fuzzy_date, highest_exact_count, highest_exact_date,
                   best_date, concurrences, close_disagreements,
                   cal, gatherVars>>

\* Lines 232-237: the EarningsGuess is returned.
Return ==
    /\ pc = "far"
    /\ DOMAIN guesses = {}
    /\ pc' = "returned"
    /\ UNCHANGED <<dates, i, guesses, visited, highest_fuzzy_count,
                   highest_fuzzy_date, highest_exact_count, highest_exact_date,
                   best_date, concurrences, close_disagreements,
                   far_disagreements, cal, gatherVars>>

GuessNext ==
    \/ GroupStep
    \/ GroupDone
    \/ ScorePast
    \/ ScoreCandidate
    \/ SelectPanics
    \/ Select
    \/ FarStep
    \/ Return

GuessSpec == GuessInit /\ [][GuessNext]_vars

(***************************************************************************)
(* The trading calendar applied to a date, lines 88-112.                   *)
(***************************************************************************)
\* The dates the calendar is applied to: before, at and after FirstDay.
CalDates == (FirstDay - 2 * MaxDate)..(FirstDay + 2 * MaxDate)

CalInit ==
    /\ GuessIdle
    /\ GatherIdle
    /\ \E d \in CalDates :
         cal = [d |-> d, done |-> {}, closest |-> 0, next |-> 0, prev |-> 0,
                next_of_prev |-> 0, prev_of_next |-> 0]

CalClosest ==
    /\ "closest" \notin cal.done
    /\ cal' = [cal EXCEPT !.closest = closest_trading_day(cal.d),
                          !.done = @ \cup {"closest"}]
    /\ UNCHANGED <<guessVars, gatherVars>>

CalNext ==
    /\ "next" \notin cal.done
    /\ cal' = [cal EXCEPT !.next = next_trading_day(cal.d),
                          !.done = @ \cup {"next"}]
    /\ UNCHANGED <<guessVars, gatherVars>>

CalPrev ==
    /\ "prev" \notin cal.done
    /\ cal' = [cal EXCEPT !.prev = prev_trading_day(cal.d),
                          !.done = @ \cup {"prev"}]
    /\ UNCHANGED <<guessVars, gatherVars>>

CalNextOfPrev ==
    /\ "prev" \in cal.done
    /\ "next_of_prev" \notin cal.done
    /\ cal' = [cal EXCEPT !.next_of_prev = next_trading_day(cal.prev),
                          !.done = @ \cup {"next_of_prev"}]
    /\ UNCHANGED <<guessVars, gatherVars>>

CalPrevOfNext ==
    /\ "next" \in cal.done
    /\ "prev_of_next" \notin cal.done
    /\ cal' = [cal EXCEPT !.prev_of_next = prev_trading_day(cal.next),
                          !.done = @ \cup {"prev_of_next"}]
    /\ UNCHANGED <<guessVars, gatherVars>>

CalendarNext ==
    \/ CalClosest
    \/ CalNext
    \/ CalPrev
    \/ CalNextOfPrev
    \/ CalPrevOfNext

CalSpec == CalInit /\ [][CalendarNext]_vars

(***************************************************************************)
(* get_earnings_date_estimates, lines 386-430.                             *)
(*                                                                         *)
(* An adapter's extract is taken at its declared interface (line 26): it   *)
(* returns Ok(Some(datetime)), Ok(None) or Err(error).                     *)
(***************************************************************************)
\* The datetimes an adapter's extract may come back with.
ExtractDateTimes == {[date |-> Today, time |-> "Unknown"],
                     [date |-> Today + 1, time |-> "AfterMarket"]}

Err(cause) == [kind |-> "Err", cause |-> cause, datetime |-> NoDateTime]

OkNone == [kind |-> "None", cause |-> "", datetime |-> NoDateTime]

OkSome(dt) == [kind |-> "Some", cause |-> "", datetime |-> dt]

\* A join that does not wait for the thread.
JoinableNoWait(s) == TRUE

\* j.join() blocks until the task's thread has finished.
Joinable(s) == task[s] = "finished"

\* find_map in place of filter_map: only the first Ok(Some(date)) is kept.
CollectFirstOnly(acc, r, s) ==
    IF r.kind = "Some" /\ acc = <<>>
    THEN Append(acc, [datetime |-> r.datetime, source |-> SOURCES[s]])
    ELSE acc

\* filter_map over the joined results, lines 415-428: an Ok(Some(date)) is
\* kept, an Err or an Ok(None) yields nothing.
Collect(acc, r, s) ==
    IF r.kind = "Some"
    THEN Append(acc, [datetime |-> r.datetime, source |-> SOURCES[s]])
    ELSE acc

\* An Err that is passed on instead of logged: the call fails.
AfterJoinPropagates(r) == IF r.kind = "Err" THEN "failed" ELSE "join"

\* Lines 416-426: whatever the task returned, the closure of filter_map
\* returns an Option and the iteration over the join handles goes on.
AfterJoin(r) == "join"

GatherInit ==
    /\ GuessIdle
    /\ CalIdle
    /\ gpc = "spawn"
    /\ spawned = 0
    /\ joined = 0
    /\ task = [s \in Adapters |-> "unspawned"]
    /\ result = [s \in Adapters |-> Pending]
    /\ estimates = <<>>
    /\ warned = {}
    /\ error_log = <<>>

\* Lines 388-412: scope.spawn for the next adapter of SOURCES; collect()
\* ends once every adapter has its task.
Spawn ==
    /\ gpc = "spawn"
    /\ spawned < Len(SOURCES)
    /\ spawned' = spawned + 1
    /\ task' = [task EXCEPT ![spawned + 1] = "send"]
    /\ gpc' = IF spawned + 1 = Len(SOURCES) THEN "join" ELSE "spawn"
    /\ UNCHANGED <<joined, result, estimates, warned, error_log, guessVars,
                   cal>>

\* Line 392: send() fails and ? returns the error.
TaskTransportError(s) ==
    /\ task[s] = "send"
    /\ task' = [task EXCEPT ![s] = "finished"]
    /\ result' = [result EXCEPT ![s] = Err("transport")]
    /\ UNCHANGED <<gpc, spawned, joined, estimates, warned, error_log,
                   guessVars, cal>>

\* Lines 392-396: a response without a success status.
TaskNonSuccess(s) ==
    /\ task[s] = "send"
    /\ task' = [task EXCEPT ![s] = "finished"]
    /\ result' = [result EXCEPT ![s] = Err("status")]
    /\ UNCHANGED <<gpc, spawned, joined, estimates, warned, error_log,
                   guessVars, cal>>

\* Lines 392-394: a response with a success status.
TaskSuccess(s) ==
    /\ task[s] = "send"
    /\ task' = [task EXCEPT ![s] = "extract"]
    /\ UNCHANGED <<gpc, spawned, joined, result, estimates, warned, error_log,
                   guessVars, cal>>

\* Line 398: extract fails and ? returns the error with its context.
TaskExtractError(s) ==
    /\ task[s] = "extract"
    /\ task' = [task EXCEPT ![s] = "finished"]
    /\ result' = [result EXCEPT ![s] = Err("extract")]
    /\ UNCHANGED <<gpc, spawned, joined, estimates, warned, error_log,
                   guessVars, cal>>

\* Lines 398-409: extract finds no date; the task warns and returns Ok(None).
TaskExtractNone(s) ==
    /\ task[s] = "extract"
    /\ task' = [task EXCEPT ![s] = "finished"]
    /\ result' = [result EXCEPT ![s] = OkNone]
    /\ warned' = warned \cup {s}
    /\ UNCHANGED <<gpc, spawned, joined, estimates, error_log, guessVars, cal>>

\* Lines 398-409: extract finds a date; the task returns it with its source.
TaskExtractSome(s) ==
    /\ task[s] = "extract"
    /\ \E dt \in ExtractDateTimes :
         result' = [result EXCEPT ![s] = OkSome(dt)]
    /\ task' = [task EXCEPT ![s] = "finished"]
    /\ UNCHANGED <<gpc, spawned, joined, estimates, warned, error_log,
                   guessVars, cal>>

\* A step of adapter s's task.
TaskStep(s) ==
    \/ TaskTransportError(s)
    \/ TaskNonSuccess(s)
    \/ TaskSuccess(s)
    \/ TaskExtractError(s)
    \/ TaskExtractNone(s)
    \/ TaskExtractSome(s)

\* Lines 414-427: the next handle is joined, in the order of SOURCES.
Join ==
    /\ gpc = "join"
    /\ joined < Len(SOURCES)
    /\ Joinable(joined + 1)
    /\ LET s == joined + 1
           r == result[s]
       IN /\ estimates' = Collect(estimates, r, s)
          /\ error_log' = IF r.kind = "Err" THEN Append(error_log, s)
                          ELSE error_log
          /\ gpc' = AfterJoin(r)
    /\ joined' = joined + 1
    /\ UNCHANGED <<spawned, task, result, warned, guessVars, cal>>

\* Lines 428-429: every handle is joined; the scope ends and the Vec is
\* returned.
ReturnEstimates ==
    /\ gpc = "join"
    /\ joined = Len(SOURCES)
    /\ gpc' = "returned"
    /\ UNCHANGED <<spawned, joined, task, result, estimates, warned,
                   error_log, guessVars, cal>>

\* A step of the calling thread.
Main == Spawn \/ Join \/ ReturnEstimates

GatherNext ==
    \/ Spawn
    \/ Join
    \/ ReturnEstimates
    \/ \E s \in Adapters : TaskTransportError(s)
    \/ \E s \in Adapters : TaskNonSuccess(s)
    \/ \E s \in Adapters : TaskSuccess(s)
    \/ \E s \in Adapters : TaskExtractError(s)
    \/ \E s \in Adapters : TaskExtractNone(s)
    \/ \E s \in Adapters : TaskExtractSome(s)

GatherSpec == GatherInit /\ [][GatherNext]_vars

\* The calling thread is scheduled: it is not left forever at a step it can
\* take.
GatherFair == GatherInit /\ [][GatherNext]_vars /\ WF_vars(Main)

(***************************************************************************)
(* What the properties speak of, stated from the input slice.              *)
(***************************************************************************)
\* The dates an observation is registered at: its derived session and, for
\* an Unknown timing, the trading days before and after its date.
Registered(dt) ==
    CASE dt.time = "BeforeMarket" -> {prev_trading_day(dt.date)}
      [] dt.time = "AfterMarket" -> {dt.date}
      [] OTHER -> {dt.date, next_trading_day(dt.date),
                   prev_trading_day(dt.date)}

RegisteredDates ==
    UNION {Registered(dates[k].datetime) : k \in 1..Len(dates)}

\* The registered dates on or after today.
Candidates == {d \in RegisteredDates : d >= Today}

\* The number of entries registered at date d.
Votes(d) ==
    Cardinality({k \in 1..Len(dates) : d \in Registered(dates[k].datetime)})

UniqueSources ==
    \A j, k \in 1..Len(dates) : dates[j].source = dates[k].source => j = k

\* The number of entries of list that carry the source.
Occurrences(list, source) ==
    Cardinality({k \in 1..Len(list) : list[k].source = source})

Buckets == concurrences \o close_disagreements \o far_disagreements

\* C1: whenever no registered date is on or after today (the empty slice
\* included), best_earnings_guess ends in an explicit failure: it neither
\* panics nor returns an EarningsGuess.
C1_ExplicitFailure ==
    Candidates = {} => pc \notin {"panicked", "returned"}

\* C2: whenever best_earnings_guess returns, no source name occurs in two
\* different buckets of the result.
C2_BucketsDisjoint ==
    pc = "returned" =>
      /\ SourcesOf(concurrences) \cap SourcesOf(close_disagreements) = {}
      /\ SourcesOf(concurrences) \cap SourcesOf(far_disagreements) = {}
      /\ SourcesOf(close_disagreements) \cap SourcesOf(far_disagreements) = {}

\* A returned result in which an Unknown-timing observation sits in
\* concurrences, hence also in a neighbouring group, next to a non-empty
\* close_disagreements.
C2_Witness ==
    /\ pc = "returned"
    /\ close_disagreements # <<>>
    /\ \E k \in 1..Len(concurrences) : concurrences[k].datetime.time = "Unknown"

\* C3: whenever best_earnings_guess returns, last_session is a registered
\* date on or after today, no registered date on or after today has more
\* votes, and none with as many votes is earlier, whatever the order the
\* map is iterated in.
C3_Selection ==
    pc = "returned" =>
      /\ best_date \in Candidates
      /\ \A d \in Candidates :
           /\ Votes(d) <= Votes(best_date)
           /\ Votes(d) = Votes(best_date) => best_date <= d

\* The selection where some registered date is on or after today: there
\* it is the earliest of the most voted candidates in every iteration
\* order, so that C3_Selection fails only where no candidate exists.
SelectionAmongCandidates ==
    (pc = "returned" /\ Candidates # {}) =>
      /\ best_date \in Candidates
      /\ \A d \in Candidates :
           /\ Votes(d) <= Votes(best_date)
           /\ Votes(d) = Votes(best_date) => best_date <= d

\* C7: for a date d from Monday to Friday, next_trading_day(prev_trading_day(d))
\* and prev_trading_day(next_trading_day(d)) are d, Friday's next trading day
\* is d + 3 and Monday's previous one d - 3; for a Saturday or Sunday the
\* next trading day is the following Monday and the previous one the
\* preceding Friday.
C7_RoundTrip ==
    LET d == cal.d
        weekend == weekday(d) \in {Sat, Sun}
    IN /\ ("next_of_prev" \in cal.done /\ ~weekend) => cal.next_of_prev = d
       /\ ("prev_of_next" \in cal.done /\ ~weekend) => cal.prev_of_next = d
       /\ ("next" \in cal.done /\ weekday(d) = Fri) => cal.next = d + 3
       /\ ("prev" \in cal.done /\ weekday(d) = Mon) => cal.prev = d - 3
       /\ ("next" \in cal.done /\ weekend) =>
            /\ weekday(cal.next) = Mon
            /\ cal.next - d \in 1..2
       /\ ("prev" \in cal.done /\ weekend) =>
            /\ weekday(cal.prev) = Fri
            /\ d - cal.prev \in 1..2

\* Both round trips computed from a Monday on or before FirstDay.
C7_Witness ==
    /\ weekday(cal.d) = Mon
    /\ cal.d <= FirstDay
    /\ {"next_of_prev", "prev_of_next"} \subseteq cal.done

\* C8: whenever best_earnings_guess returns on a slice with at most one
\* observation per source, concurrences holds exactly the observations
\* registered at last_session, each once; an Unknown-timing observation
\* that reaches last_session by a neighbouring vote is a concurrence and
\* not a close disagreement.
C8_Concurrences ==
    (pc = "returned" /\ UniqueSources) =>
      /\ \A k \in 1..Len(dates) :
           Cardinality({j \in 1..Len(concurrences) :
                          concurrences[j] = dates[k]})
             = IF best_date \in Registered(dates[k].datetime) THEN 1 ELSE 0
      /\ Len(concurrences) = Votes(best_date)
      /\ \A k \in 1..Len(dates) :
           (/\ dates[k].datetime.time = "Unknown"
            /\ dates[k].datetime.date # best_date
            /\ best_date \in Registered(dates[k].datetime))
           => /\ dates[k].source \in SourcesOf(concurrences)
              /\ dates[k].source \notin SourcesOf(close_disagreements)

\* A returned result with two concurrences, one of them an Unknown-timing
\* observation whose own date is not last_session.
C8_Witness ==
    /\ pc = "returned"
    /\ UniqueSources
    /\ Len(concurrences) = 2
    /\ \E k \in 1..Len(concurrences) :
         /\ concurrences[k].datetime.time = "Unknown"
         /\ concurrences[k].datetime.date # best_date

\* C9, as claimed: whenever best_earnings_guess returns, every source in
\* close_disagreements has its derived session at prev_trading_day(last_session)
\* or next_trading_day(last_session), and is not in concurrences.
C9_DerivedSessionAdjacent ==
    pc = "returned" =>
      \A k \in 1..Len(close_disagreements) :
        /\ last_session(close_disagreements[k].datetime)[1] \in
             {prev_trading_day(best_date), next_trading_day(best_date)}
        /\ close_disagreements[k].source \notin SourcesOf(concurrences)

\* C9, amended: whenever best_earnings_guess returns, every source in
\* close_disagreements is registered at prev_trading_day(last_session) or
\* next_trading_day(last_session), by its derived session or, for an
\* Unknown timing, by its vote on a neighbouring trading day, and is not in
\* concurrences.
C9_RegisteredAdjacent ==
    pc = "returned" =>
      \A k \in 1..Len(close_disagreements) :
        /\ Registered(close_disagreements[k].datetime) \cap
             {prev_trading_day(best_date), next_trading_day(best_date)} # {}
        /\ close_disagreements[k].source \notin SourcesOf(concurrences)

\* A returned result whose close disagreement has its derived session
\* neither at last_session nor at one of its two neighbours.
C9_Witness ==
    /\ pc = "returned"
    /\ \E k \in 1..Len(close_disagreements) :
         last_session(close_disagreements[k].datetime)[1] \notin
           {best_date, prev_trading_day(best_date), next_trading_day(best_date)}

\* C10: whenever best_earnings_guess returns on a slice with at most one
\* observation per source, every input source is in exactly one bucket,
\* once, also when its derived session is before today.
C10_NothingDropped ==
    (pc = "returned" /\ UniqueSources) =>
      /\ \A k \in 1..Len(dates) : Occurrences(Buckets, dates[k].source) = 1
      /\ Len(Buckets) = Len(dates)

\* A returned result on two sources, one with a derived session before
\* today that is a far disagreement.
C10_Witness ==
    /\ pc = "returned"
    /\ UniqueSources
    /\ Len(dates) = 2
    /\ \E k \in 1..Len(far_disagreements) :
         last_session(far_disagreements[k].datetime)[1] < Today

\* The entry adapter s contributes when its task returned Ok(Some(_)).
Entry(s) == [datetime |-> result[s].datetime, source |-> SOURCES[s]]

AllFinished == \A s \in Adapters : task[s] = "finished"

C5_OnePerAdapter ==
    gpc = "returned" =>
      /\ Len(estimates) <= Len(SOURCES)
      /\ \A j, k \in 1..Len(estimates) :
           estimates[j].source = estimates[k].source => j = k
      /\ \A s \in Adapters :
           Cardinality({j \in 1..Len(estimates) : estimates[j] = Entry(s)})
             = IF result[s].kind = "Some" THEN 1 ELSE 0
      /\ \A s \in Adapters :
           result[s].kind # "Some" => Occurrences(estimates, SOURCES[s]) = 0

\* A returned list of two entries, with a failed adapter and one that
\* found no date.
C5_Witness ==
    /\ gpc = "returned"
    /\ Len(estimates) = 2
    /\ \E s \in Adapters : result[s].kind = "Err"
    /\ \E s \in Adapters : result[s].kind = "None"

\* C6: no handle is joined before every task is spawned; the call has
\* returned only when every task is finished; a running task can always
\* take its next step, whatever the other tasks returned; and once every
\* task is finished the call returns.
C6_JoinBarrier ==
    /\ [](joined > 0 => spawned = Len(SOURCES))
    /\ [](gpc = "returned" => AllFinished)
    /\ [](\A s \in Adapters :
            task[s] \in {"send", "extract"} => ENABLED TaskStep(s))
    /\ (AllFinished ~> gpc = "returned")

\* The call has returned after the first task failed and the last task
\* went through both of its steps.
C6_Witness ==
    /\ gpc = "returned"
    /\ result[1].kind = "Err"
    /\ result[Len(SOURCES)].kind \in {"Some", "None"}
    /\ AllFinished

=============================================================================
